---- MODULE Spec2Model ----
(***************************************************************************)
(* Model of the statistics core of qnode-logproc (src/src/stats.rs): the   *)
(* lazily built record channel and its consumer task, the message          *)
(* interner, the sliding window of records with its counters and           *)
(* histograms, cleanup_and_adjust with the adaptive window, and the        *)
(* reporter task.                                                          *)
(*                                                                         *)
(* Conventions.  f64/f32 values are exact rationals <<num, den>> (den = 0  *)
(* for the non-finite results of a division by zero); trend scores, which  *)
(* involve exp(), are kept symbolically as the sets of terms of their two  *)
(* sums.  HashMaps are functions on their key sets.  A VecDeque is a       *)
(* sequence whose first element is the front.  Every handler runs under    *)
(* the `stat` lock from start to end, so a handler is one atomic action;   *)
(* the clock is read once per handler.                                     *)
(***************************************************************************)
EXTENDS Integers, Sequences, FiniteSets, TLC

\* ---------------------------------------------------------------- constants
MSG_ERROR_WINDOW == 15000
MIN_WINDOW == 30
MAX_WINDOW == 120
DEFAULT_WINDOW == 60000
LOW_BUFFER == 75000
HIGH_BUFFER == 100000
TARGET_BUFFER == 100000
SECOND_MS == 1000
RATE_MIN_INTERVAL == 100
PEAK_MIN_INTERVAL == 1000
MIN_SPAN == 2000
Inc == 1
Dec == -1

\* ------------------------------------------------------------------- bounds
\* Wall-clock value (ms) at construction.
Epoch == 1000000
\* Calls of push_record/stop made by the producers.
MaxPush == 3
\* Times the clock advances.
MaxTicks == 3
\* Messages in flight in the channels.
MaxQueue == 1
\* Channels (and consumer tasks) build_tx may create.
MaxChans == 2
\* Burst workload: records sent per millisecond, and records sent in all.
PerMs == 5
MaxBurst == 506
\* Times the clock advances in the lock-by-lock runs.
LockTicks == 1
\* Paced workload: PaceRecords records every PaceMs milliseconds, MaxPaced in all.
PaceRecords == 3
PaceMs == 2
MaxPaced == 160

\* Amounts (ms) by which the clock advances between steps.
Steps == {500, 61000}
\* How far (ms) the logged time of a late record lies behind its receive time.
LogLag == 20000

\* ------------------------------------------------------------------ helpers
EmptyMap == [x \in {} |-> 0]
MapPut(m, k, v) == [x \in (DOMAIN m) \cup {k} |-> IF x = k THEN v ELSE m[x]]
MapDel(m, k) == [x \in (DOMAIN m) \ {k} |-> m[x]]

Max(a, b) == IF a >= b THEN a ELSE b
Min(a, b) == IF a <= b THEN a ELSE b

\* i64 division truncates toward zero.
TruncDiv(a, b) == IF a >= 0 THEN a \div b ELSE -((-a) \div b)

RECURSIVE GCD(_, _)
GCD(a, b) == IF b = 0 THEN a ELSE GCD(b, a % b)

\* n / d as f64, in lowest terms.
Rat(n, d) ==
    IF d = 0 THEN <<n, 0>>
    ELSE IF n = 0 THEN <<0, 1>>
    ELSE LET g == GCD(n, d) IN <<n \div g, d \div g>>
RatZero == <<0, 1>>
RatPos(r) == r[2] > 0 /\ r[1] > 0
RatLess(a, b) == a[1] * b[2] < b[1] * a[2]
\* f64::max
RatMax(a, b) == IF RatLess(a, b) THEN b ELSE a

RECURSIVE SumOver(_, _)
SumOver(f, S) ==
    IF S = {} THEN 0
    ELSE LET x == CHOOSE y \in S : TRUE IN f[x] + SumOver(f, S \ {x})

\* ------------------------------------------------------------------ records
\* StatRecord, the value sent through the channel.  `sn` is a serial number
\* the model attaches to every send; the program does not have it.
OkRecord(sn, recv, logged, level, message) ==
    [kind |-> "OK", sn |-> sn, received_millis |-> recv, logged_millis |-> logged,
     level |-> level, message |-> message]
ErrRecord(sn, recv) ==
    [kind |-> "Err", sn |-> sn, received_millis |-> recv, logged_millis |-> recv,
     level |-> "NONE", message |-> ""]
StopRecord(sn) ==
    [kind |-> "Stop", sn |-> sn, received_millis |-> -1, logged_millis |-> -1,
     level |-> "NONE", message |-> ""]

\* InnerRecord: OK(InnerOKRecord) or Err(InnerErrRecord).  An Err record has
\* no logged time and no message id; the fields are filled to keep one shape.
InnerOK(recv, logged, level, id) ==
    [kind |-> "OK", received_millis |-> recv, logged_millis |-> logged,
     level |-> level, msg_id |-> id]
InnerErr(recv) ==
    [kind |-> "Err", received_millis |-> recv, logged_millis |-> recv,
     level |-> "NONE", msg_id |-> 0]

recv_timestamp_millis(rec) == rec.received_millis
log_timestamp_millis(rec) ==
    IF rec.kind = "OK" THEN rec.logged_millis ELSE rec.received_millis
log_timestamp(rec) == TruncDiv(log_timestamp_millis(rec), SECOND_MS)

Front(q) == q[1]
Back(q) == q[Len(q)]
PopBack(q) == SubSeq(q, 1, Len(q) - 1)
PushFront(q, x) == <<x>> \o q

\* ------------------------------------------------------------ StatsSnapshot
\* A trend score: the terms <<base - msec, count>> of the newer and of the
\* older sum, and the span they are scaled by.  0.0 has no terms.
ZeroScore == [newer |-> {}, older |-> {}, span |-> 0]

InitStat ==
    [entries |-> 0, collected_interval |-> 0, rate |-> RatZero, peak_rate |-> RatZero,
     error_rate |-> RatZero, errors |-> 0, infos |-> 0, debugs |-> 0, malformed |-> 0,
     error_msg_counts |-> EmptyMap, error_msg_per_sec |-> EmptyMap,
     error_msg_rates |-> EmptyMap, window |-> DEFAULT_WINDOW,
     previous_window |-> DEFAULT_WINDOW, last_second_received |-> <<>>]

\* entry(k).and_modify(|c| *c += act).or_insert(act)
Bump(m, k, act) ==
    MapPut(m, k, IF k \in DOMAIN m THEN m[k] + act ELSE act)

PruneNever(per_sec, log_time, id, cnt) == per_sec
\* The `if cnt == 0` block: drop the inner key, then the emptied outer key.
Prune(per_sec, log_time, id, cnt) ==
    IF cnt = 0
    THEN LET inner == MapDel(per_sec[log_time], id)
         IN  IF DOMAIN inner = {} THEN MapDel(per_sec, log_time)
             ELSE MapPut(per_sec, log_time, inner)
    ELSE per_sec

\* The per-second histogram update of an ERROR record.
CountPerSec(per_sec, log_time, id, act) ==
    LET inner0 == IF log_time \in DOMAIN per_sec THEN per_sec[log_time] ELSE EmptyMap
        inner1 == Bump(inner0, id, act)
    IN  Prune(MapPut(per_sec, log_time, inner1), log_time, id, inner1[id])

CountErrorMsgIncOnly(counts, id, act) == Bump(counts, id, Inc)
\* The error_msg_counts update of an ERROR record.
CountErrorMsg(counts, id, act) == Bump(counts, id, act)

count_inner_rec(st, rec, act) ==
    IF rec.kind = "OK"
    THEN CASE rec.level = "ERROR" ->
                [st EXCEPT !.errors = @ + act,
                           !.error_msg_counts = CountErrorMsg(@, rec.msg_id, act),
                           !.error_msg_per_sec =
                               CountPerSec(@, log_timestamp(rec), rec.msg_id, act)]
           [] rec.level = "INFO" -> [st EXCEPT !.infos = @ + act]
           [] rec.level = "DEBUG" -> [st EXCEPT !.debugs = @ + act]
    ELSE [st EXCEPT !.malformed = @ + act]

RECURSIVE DropStale(_, _)
DropStale(q, t) ==
    IF Len(q) > 0 /\ t - Back(q) > SECOND_MS THEN DropStale(PopBack(q), t) ELSE q

\* refresh_last_second(Some(ts)) at clock value t.
refresh_last_second(st, ts, t) ==
    [st EXCEPT !.last_second_received = DropStale(PushFront(@, ts), t)]

\* ----------------------------------------------------------------- interner
NewIdAfterPush(ms) == Len(ms) + 1
\* The id msg_id gives a text that is not interned yet.
NewId(ms) == Len(ms)

\* msg_id(msg): [id, msgs, msg_idx] after the call.
msg_id(ms, idx, msg) ==
    IF msg \in DOMAIN idx
    THEN [id |-> idx[msg], msgs |-> ms, msg_idx |-> idx]
    ELSE LET new_id == NewId(ms)
         IN  [id |-> new_id, msgs |-> Append(ms, msg), msg_idx |-> MapPut(idx, msg, new_id)]

\* msg_by_id(id): Vec::get(id), "N/A" when out of range.
msg_by_id(ms, id) == IF id >= 0 /\ id < Len(ms) THEN ms[id + 1] ELSE "N/A"

\* ----------------------------------------------------------- recalc_weights
\* `(... ) as usize > 1`: a negative i64 wraps to a value above 2^63.
GroupTooOld(q) == q < 0 \/ q > 1
GroupIdx(t, sec, window_size) == TruncDiv((t - sec * SECOND_MS) * 2, window_size)

\* The seconds the descending scan reaches before its `break`.
Scanned(per_sec, t, window_size) ==
    {s \in DOMAIN per_sec :
        \A s2 \in DOMAIN per_sec :
            s2 >= s => ~GroupTooOld(GroupIdx(t, s2, window_size))}

\* grouped[g][id] as the set of its terms <<base_time_millis[g] - msec, count>>.
Grouped(per_sec, t, window_size, g, id) ==
    LET base == IF g = 0 THEN t - window_size \div 2 ELSE t
    IN  {<<base - s * SECOND_MS, per_sec[s][id]>> :
            s \in {x \in Scanned(per_sec, t, window_size) :
                      /\ GroupIdx(t, x, window_size) = g
                      /\ id \in DOMAIN per_sec[x]}}

\* The score of one message: newer / older, or 0.0.
Score(newer, older, window_size) ==
    IF older # {} /\ newer # {}
    THEN [newer |-> newer, older |-> older, span |-> window_size]
    ELSE ZeroScore

\* The final loop: a score for every key of error_msg_counts.
Rates(st, t, window_size) ==
    [id \in (DOMAIN st.error_msg_rates) \cup (DOMAIN st.error_msg_counts) |->
        IF id \in DOMAIN st.error_msg_counts
        THEN Score(Grouped(st.error_msg_per_sec, t, window_size, 0, id),
                   Grouped(st.error_msg_per_sec, t, window_size, 1, id), window_size)
        ELSE st.error_msg_rates[id]]

WindowSize(recs) ==
    Max(log_timestamp_millis(Front(recs)) - log_timestamp_millis(Back(recs)),
        MSG_ERROR_WINDOW)

recalc_weights(st, recs, t) ==
    IF Len(recs) = 0 \/ WindowSize(recs) < MIN_SPAN THEN st
    ELSE [st EXCEPT !.error_msg_rates = Rates(st, t, WindowSize(recs))]

\* ------------------------------------------------------- cleanup_and_adjust
OldestOfMaxWindow(t, window) == t - MAX_WINDOW * SECOND_MS
\* let oldest = t - stat_snapshot.window as i64
Oldest(t, window) == t - window

\* The `while let Some(rec) = records.back()` loop: [st, recs, n] with n the
\* number of records popped.
RECURSIVE Evict(_, _, _, _)
EvictCountingUp(st, recs, oldest, n) ==
    IF Len(recs) > 0 /\ recv_timestamp_millis(Back(recs)) < oldest
    THEN Evict(count_inner_rec(st, Back(recs), Inc), PopBack(recs), oldest, n + 1)
    ELSE [st |-> st, recs |-> recs, n |-> n]
Evict(st, recs, oldest, n) ==
    IF Len(recs) > 0 /\ recv_timestamp_millis(Back(recs)) < oldest
    THEN Evict(count_inner_rec(st, Back(recs), Dec), PopBack(recs), oldest, n + 1)
    ELSE [st |-> st, recs |-> recs, n |-> n]

CollectedInterval(recs) ==
    (IF Len(recs) = 0 THEN 0 ELSE recv_timestamp_millis(Front(recs)))
    - (IF Len(recs) = 0 THEN 0 ELSE recv_timestamp_millis(Back(recs)))

ExpectedAlwaysOut(rate, window) == TRUE
\* rate * (window / 1000.0) compared with the two thresholds; window is a
\* whole number of seconds.
ExpectedOutOfBand(rate, window) ==
    LET secs == window \div SECOND_MS
    IN  \/ rate[1] * secs > HIGH_BUFFER * rate[2]
        \/ rate[1] * secs < LOW_BUFFER * rate[2]

\* (100_000.0 / rate) as usize
TargetSeconds(rate) == (TARGET_BUFFER * rate[2]) \div rate[1]

NewWindowUnclamped(rate) == TargetSeconds(rate) * SECOND_MS
\* ((100_000.0 / rate) as usize).min(MIN_WINDOW).max(MAX_WINDOW) * 1000
NewWindow(rate) == Max(Min(TargetSeconds(rate), MIN_WINDOW), MAX_WINDOW) * SECOND_MS

\* The pass up to the eviction loop: entries = records.len(), then the pops.
PassEvict(st, recs, oldest) == Evict([st EXCEPT !.entries = Len(recs)], recs, oldest, 0)

\* collected_interval, rate, peak_rate and error_rate of the pass.
SetRate(st) ==
    IF st.collected_interval > RATE_MIN_INTERVAL
    THEN [st EXCEPT !.rate = Rat(st.entries * SECOND_MS, st.collected_interval)]
    ELSE st
SetPeak(st) ==
    IF st.collected_interval >= PEAK_MIN_INTERVAL
    THEN [st EXCEPT !.peak_rate = RatMax(st.rate, st.peak_rate)]
    ELSE st
SetErrorRate(st) == [st EXCEPT !.error_rate = Rat(st.errors, st.entries)]
Measure(st, recs) ==
    SetErrorRate(SetPeak(SetRate([st EXCEPT !.collected_interval = CollectedInterval(recs)])))

\* The adaptive-window branch.
TakesBranch(st) == RatPos(st.rate) /\ ExpectedOutOfBand(st.rate, st.window)
ChangesFromPrevious(st) == TakesBranch(st) /\ NewWindow(st.rate) # st.previous_window
\* if new_window != stat_snapshot.window
Changes(st) == TakesBranch(st) /\ NewWindow(st.rate) # st.window
Adjust(st) ==
    IF Changes(st)
    THEN [st EXCEPT !.previous_window = st.window, !.window = NewWindow(st.rate)]
    ELSE st

PassResult(st, recs, evicted) ==
    [st |-> Adjust(st), recs |-> recs, recalc |-> Changes(st), evicted |-> evicted,
     cond |-> TakesBranch(st), rate |-> st.rate, from |-> st.window]

PassAfterEvict(ev, t) ==
    PassResult(recalc_weights(Measure(ev.st, ev.recs), ev.recs, t), ev.recs, ev.n)

\* One pass of the `while recalc` loop.
CleanupPass(st, recs, t, oldest) == PassAfterEvict(PassEvict(st, recs, oldest), t)

\* What one invocation did, kept for the properties: the number of passes and
\* of records evicted, whether the window changed, and for the last pass that
\* took the adaptive-window branch the rate and the window it started from
\* (first_rate, first_from: the same for the first such pass).
NoCleanup ==
    [passes |-> 0, evicted |-> 0, changed |-> FALSE, cond |-> FALSE,
     rate |-> RatZero, from |-> 0, first_rate |-> RatZero, first_from |-> 0]

PassLog(p, log) ==
    [passes |-> log.passes + 1,
     evicted |-> log.evicted + p.evicted,
     changed |-> log.changed \/ p.recalc,
     cond |-> log.cond \/ p.cond,
     rate |-> IF p.cond THEN p.rate ELSE log.rate,
     from |-> IF p.cond THEN p.from ELSE log.from,
     first_rate |-> IF p.cond /\ ~log.cond THEN p.rate ELSE log.first_rate,
     first_from |-> IF p.cond /\ ~log.cond THEN p.from ELSE log.first_from]

RECURSIVE CleanupLoop(_, _, _, _, _)
LoopAfterPass(p, t, oldest, log) ==
    IF p.recalc
    THEN CleanupLoop(p.st, p.recs, t, oldest, PassLog(p, log))
    ELSE [st |-> p.st, recs |-> p.recs, log |-> PassLog(p, log)]

CleanupLoop(st, recs, t, oldest, log) ==
    LoopAfterPass(CleanupPass(st, recs, t, oldest), t, oldest, log)

cleanup_and_adjust(st, recs, t) ==
    CleanupLoop(st, recs, t, Oldest(t, st.window), NoCleanup)

\* -------------------------------------------------------------------- state
VARIABLES
    now,          \* the wall clock, Utc::now().timestamp_millis()
    ticks,        \* times the clock has advanced
    pushes,       \* sends attempted so far (the serial number of the last one)
    tx,           \* Stats::tx, the lazy send handle: a channel, or 0 when unset
    nchan,        \* channels built so far
    queue,        \* queue[k]: the messages in flight in channel k
    cons,         \* cons[k]: the consumer task of channel k
    records,      \* Stats::records
    stat,         \* Stats::stat
    msgs,         \* Stats::msgs
    msg_idx,      \* Stats::msg_idx
    rpc,          \* where the reporter task (Stats::start) is in its loop
    last_op,      \* the handler that ran last
    last_cleanup, \* what the last cleanup_and_adjust did
    late,         \* serial numbers of the push_record calls made after every
                  \* consumer spawned so far had exited
    sent,         \* sent[sn]: the channel that accepted send sn, 0 if none did
    stop_at,      \* stop_at[k]: the serial number of the Stop consumer k observed
    applied,      \* serial numbers of the records applied to the window, in order
    shut_at,      \* the sends made before the first shutdown() call, -1 before it
    stat_lock,    \* the holder of the lock of Stats::stat, 0 when free
    records_lock, \* the holder of the write lock of Stats::records, 0 when free
    cpc,          \* cpc[k]: where consumer k is inside process_ok / process_err
    cur,          \* cur[k]: the record consumer k is processing
    idx_lock,     \* the holder of the lock of Stats::msg_idx, 0 when free
    msgs_lock,    \* the holder of the lock of Stats::msgs, 0 when free
    readers,      \* readers[t]: the read guards of Stats::records task t holds
    pass          \* pass[t]: the iteration of the cleanup loop task t is in

vars == <<now, ticks, pushes, tx, nchan, queue, cons, records, stat, msgs, msg_idx,
          rpc, last_op, last_cleanup, late, sent, stop_at, applied, shut_at,
          stat_lock, records_lock, cpc, cur, idx_lock, msgs_lock, readers, pass>>

chan_vars == <<tx, nchan, queue, cons, sent, stop_at>>
window_vars == <<records, stat, msgs, msg_idx, last_cleanup, applied>>
interner_locks == <<idx_lock, msgs_lock>>
guard_vars == <<readers, pass>>
lock_vars == <<stat_lock, records_lock, cpc, cur, idx_lock, msgs_lock, readers, pass>>

Chans == 1..MaxChans

\* The tasks that take the locks of Stats: the consumers and the reporter.
Reporter == -1
Tasks == Chans \cup {Reporter}

Init ==
    /\ now = Epoch
    /\ ticks = 0
    /\ pushes = 0
    /\ tx = 0
    /\ nchan = 0
    /\ queue = [k \in Chans |-> <<>>]
    /\ cons = [k \in Chans |-> "none"]
    /\ records = <<>>
    /\ stat = InitStat
    /\ msgs = <<>>
    /\ msg_idx = EmptyMap
    /\ rpc = "loop"
    /\ last_op = "new"
    /\ last_cleanup = NoCleanup
    /\ late = {}
    /\ sent = <<>>
    /\ stop_at = [k \in Chans |-> 0]
    /\ applied = <<>>
    /\ shut_at = -1
    /\ stat_lock = 0
    /\ records_lock = 0
    /\ cpc = [k \in Chans |-> "recv"]
    /\ cur = [k \in Chans |-> StopRecord(0)]
    /\ idx_lock = 0
    /\ msgs_lock = 0
    /\ readers = [t \in Tasks |-> 0]
    /\ pass = [t \in Tasks |-> 0]

\* ------------------------------------------------------------------- locks
\* stat_mut() is granted when nobody holds the lock of stat; records() and
\* records_mut() when nobody holds the write lock of records.
StatNotLocked == TRUE
StatFree == stat_lock = 0
RecordsFree == records_lock = 0

\* records_mut() also waits for every read guard to be dropped.
RecordsWritable == RecordsFree /\ \A t \in Tasks : readers[t] = 0

\* The statements that call records_mut(): the push_front of process_ok and
\* process_err, and the write scope of each iteration of cleanup_and_adjust.
WritePoints == {"count", "cleanup", "rewrite"}
At(t) == IF t = Reporter THEN rpc ELSE cpc[t]

\* A task other than `who` stands at a records_mut() that cannot be granted.
\* The lock lets no new reader in while a writer is queued, a reader that
\* already holds a guard included.
WriterQueued(who) ==
    \E t \in Tasks \ {who} : At(t) \in WritePoints /\ ~RecordsWritable

RecordsReadable(who) == RecordsFree /\ ~WriterQueued(who)

\* ----------------------------------------------------------------- producer
\* self.tx()?.send(rec): the lazy handle is built on first use (build_tx
\* makes the channel and spawns its consumer); the send fails when the
\* receiver of the channel is gone.
TxAvailable == tx # 0 \/ nchan < MaxChans

Send(rec) ==
    LET built == tx = 0
        k == IF built THEN nchan + 1 ELSE tx
        open == built \/ cons[k] = "running"
    IN  /\ TxAvailable
        /\ tx' = k
        /\ nchan' = IF built THEN nchan + 1 ELSE nchan
        /\ cons' = IF built THEN [cons EXCEPT ![k] = "running"] ELSE cons
        /\ queue' = IF open THEN [queue EXCEPT ![k] = Append(@, rec)] ELSE queue
        /\ sent' = Append(sent, IF open THEN k ELSE 0)
        /\ pushes' = pushes + 1
        /\ UNCHANGED stop_at

\* The channel is unbounded; the model lets MaxQueue messages wait in it.
QueueRoom == IF tx = 0 THEN TRUE ELSE Len(queue[tx]) < MaxQueue
SendOpen == tx = 0 \/ cons[tx] = "running"
AllConsumersExited == nchan >= 1 /\ \A k \in 1..nchan : cons[k] # "running"

push_record(rec) ==
    /\ Send(rec)
    /\ late' = IF AllConsumersExited THEN late \cup {pushes + 1} ELSE late
    /\ last_op' = "push_record"
    /\ UNCHANGED <<now, ticks, rpc, shut_at>>
    /\ UNCHANGED lock_vars
    /\ UNCHANGED window_vars

\* The records parse_line sends: the level, the message and how far the
\* logged time lies behind the receive time.
OkInputs ==
    {<<"ERROR", "boom", 0>>, <<"ERROR", "boom", LogLag>>, <<"ERROR", "disk", 0>>,
     <<"INFO", "boom", 0>>, <<"DEBUG", "disk", 0>>}

PushOk ==
    /\ pushes < MaxPush
    /\ QueueRoom
    /\ \E in \in OkInputs :
           push_record(OkRecord(pushes + 1, now, now - in[3], in[1], in[2]))

PushErr ==
    /\ pushes < MaxPush
    /\ QueueRoom
    /\ push_record(ErrRecord(pushes + 1, now))

\* stop(): send(Stop).unwrap() panics when the channel is closed.
Stop ==
    /\ pushes < MaxPush
    /\ Send(StopRecord(pushes + 1))
    /\ last_op' = IF SendOpen THEN "stop" ELSE "stop_panic"
    /\ UNCHANGED <<now, ticks, rpc, late, shut_at>>
    /\ UNCHANGED lock_vars
    /\ UNCHANGED window_vars

\* shutdown(): clear_tx() drops the send handle.
Shutdown ==
    /\ tx' = 0
    /\ shut_at' = IF shut_at = -1 THEN pushes ELSE shut_at
    /\ last_op' = "shutdown"
    /\ UNCHANGED <<now, ticks, pushes, nchan, queue, cons, sent, stop_at, rpc, late>>
    /\ UNCHANGED lock_vars
    /\ UNCHANGED window_vars

\* ----------------------------------------------------------------- consumer
\* process_ok after msg_id returned m: the record is counted and pushed, then
\* cleanup_and_adjust runs.
IngestOk(st, recs, rec, id, t) ==
    cleanup_and_adjust(
        count_inner_rec(refresh_last_second(st, rec.received_millis, t),
                        InnerOK(rec.received_millis, rec.logged_millis, rec.level, id), Inc),
        PushFront(recs, InnerOK(rec.received_millis, rec.logged_millis, rec.level, id)),
        t)

Commit(c, m, sn) ==
    /\ stat' = c.st
    /\ records' = c.recs
    /\ last_cleanup' = c.log
    /\ msgs' = m.msgs
    /\ msg_idx' = m.msg_idx
    /\ applied' = Append(applied, sn)

ProcessOkWith(m, rec, t) == Commit(IngestOk(stat, records, rec, m.id, t), m, rec.sn)

\* process_ok(rec) at clock value t.
process_ok(rec, t) == ProcessOkWith(msg_id(msgs, msg_idx, rec.message), rec, t)

process_err_refreshing(rec) ==
    /\ stat' = count_inner_rec(refresh_last_second(stat, rec.received_millis, now),
                               InnerErr(rec.received_millis), Inc)
    /\ records' = PushFront(records, InnerErr(rec.received_millis))
    /\ applied' = Append(applied, rec.sn)
    /\ UNCHANGED <<msgs, msg_idx, last_cleanup>>
\* process_err(rec)
process_err(rec) ==
    /\ stat' = count_inner_rec(stat, InnerErr(rec.received_millis), Inc)
    /\ records' = PushFront(records, InnerErr(rec.received_millis))
    /\ applied' = Append(applied, rec.sn)
    /\ UNCHANGED <<msgs, msg_idx, last_cleanup>>

\* process_incoming: one turn of `while let Some(rec) = rx.blocking_recv()`.
Receives(k, kind) ==
    /\ cons[k] = "running"
    /\ cpc[k] = "recv"
    /\ Len(queue[k]) > 0
    /\ Head(queue[k]).kind = kind

ConsumeOk ==
    \E k \in Chans :
        /\ Receives(k, "OK")
        /\ process_ok(Head(queue[k]), now)
        /\ queue' = [queue EXCEPT ![k] = Tail(@)]
        /\ last_op' = "process_ok"
        /\ UNCHANGED <<now, ticks, pushes, tx, nchan, cons, sent, stop_at, rpc, late, shut_at>>
        /\ UNCHANGED lock_vars

ConsumeErr ==
    \E k \in Chans :
        /\ Receives(k, "Err")
        /\ process_err(Head(queue[k]))
        /\ queue' = [queue EXCEPT ![k] = Tail(@)]
        /\ last_op' = "process_err"
        /\ UNCHANGED <<now, ticks, pushes, tx, nchan, cons, sent, stop_at, rpc, late, shut_at>>
        /\ UNCHANGED lock_vars

\* Stop: break; the receiver is dropped with whatever is still queued.
ConsumeStop ==
    \E k \in Chans :
        /\ Receives(k, "Stop")
        /\ cons' = [cons EXCEPT ![k] = "stopped"]
        /\ stop_at' = [stop_at EXCEPT ![k] = Head(queue[k]).sn]
        /\ queue' = [queue EXCEPT ![k] = <<>>]
        /\ last_op' = "consumer_stop"
        /\ UNCHANGED <<now, ticks, pushes, tx, nchan, sent, rpc, late, shut_at>>
        /\ UNCHANGED lock_vars
        /\ UNCHANGED window_vars

\* Consumer k has nothing left to receive and its sender is gone: its
\* blocking_recv() returns None.
ObservesClosed(k) == cons[k] = "running" /\ Len(queue[k]) = 0 /\ tx # k

\* blocking_recv() returns None: the queue is empty and the sender is gone.
ConsumeClosed ==
    \E k \in Chans :
        /\ ObservesClosed(k)
        /\ cpc[k] = "recv"
        /\ cons' = [cons EXCEPT ![k] = "closed"]
        /\ last_op' = "consumer_closed"
        /\ UNCHANGED <<now, ticks, pushes, tx, nchan, queue, sent, stop_at, rpc, late, shut_at>>
        /\ UNCHANGED lock_vars
        /\ UNCHANGED window_vars

\* ----------------------------------------------------------------- reporter
\* Stats::start: `if self.records().is_empty()` is read before the stat lock
\* is taken.
GuardKeptByCondition(held) == held + 1
\* The read guards the reporter holds once the condition is evaluated: the
\* guard of self.records() is a temporary of the condition and is dropped
\* before either branch runs.
GuardAfterCondition(held) == held

ReportCheck ==
    /\ rpc = "loop"
    /\ RecordsReadable(Reporter)
    /\ readers' = [readers EXCEPT ![Reporter] = GuardAfterCondition(@)]
    /\ rpc' = IF Len(records) = 0 THEN "loop" ELSE "render"
    /\ last_op' = IF Len(records) = 0 THEN "report_empty" ELSE "report_check"
    /\ UNCHANGED <<now, ticks, pushes, late, shut_at>>
    /\ UNCHANGED <<stat_lock, records_lock, cpc, cur, pass>>
    /\ UNCHANGED interner_locks
    /\ UNCHANGED chan_vars
    /\ UNCHANGED window_vars

CommitCleanup(c) ==
    /\ stat' = c.st
    /\ records' = c.recs
    /\ last_cleanup' = c.log

\* The locked block: cleanup_and_adjust, then print_report (which only reads).
ReportRender ==
    /\ rpc = "render"
    /\ CommitCleanup(cleanup_and_adjust(stat, records, now))
    /\ rpc' = "loop"
    /\ last_op' = "report"
    /\ UNCHANGED <<now, ticks, pushes, late, shut_at, msgs, msg_idx, applied>>
    /\ UNCHANGED lock_vars
    /\ UNCHANGED chan_vars

\* -------------------------------------------------------------------- clock
Advance ==
    /\ ticks < MaxTicks
    /\ \E d \in Steps : now' = now + d
    /\ ticks' = ticks + 1
    /\ last_op' = "advance"
    /\ UNCHANGED <<pushes, rpc, late, shut_at>>
    /\ UNCHANGED lock_vars
    /\ UNCHANGED chan_vars
    /\ UNCHANGED window_vars

\* The running pipeline: the parser sends records, the consumer ingests
\* them, the reporter ticks, the clock advances.
Next ==
    \/ PushOk
    \/ PushErr
    \/ ConsumeOk
    \/ ConsumeErr
    \/ ReportCheck
    \/ ReportRender
    \/ Advance

Spec == Init /\ [][Next]_vars

\* The life cycle of the channel: the same producer and consumer with stop()
\* and shutdown(), the clock standing still and the reporter asleep.
NextLifecycle ==
    \/ PushOk
    \/ PushErr
    \/ Stop
    \/ Shutdown
    \/ ConsumeOk
    \/ ConsumeErr
    \/ ConsumeStop
    \/ ConsumeClosed

SpecLifecycle == Init /\ [][NextLifecycle]_vars

\* ----------------------------------------------------------- burst workload
\* A producer that sends PerMs INFO records per millisecond, MaxBurst in all,
\* to a consumer that keeps up.
Drained == \A k \in Chans : Len(queue[k]) = 0

BurstPush ==
    /\ pushes < MaxBurst
    /\ Drained
    /\ now - Epoch = pushes \div PerMs
    /\ push_record(OkRecord(pushes + 1, now, now, "INFO", "boom"))

BurstAdvance ==
    /\ pushes < MaxBurst
    /\ Drained
    /\ now - Epoch < pushes \div PerMs
    /\ now' = now + 1
    /\ last_op' = "advance"
    /\ UNCHANGED <<ticks, pushes, rpc, late, shut_at>>
    /\ UNCHANGED lock_vars
    /\ UNCHANGED chan_vars
    /\ UNCHANGED window_vars

NextBurst ==
    \/ BurstPush
    \/ BurstAdvance
    \/ ConsumeOk

SpecBurst == Init /\ [][NextBurst]_vars

\* ------------------------------------------------- the handlers, lock by lock
\* The same consumer and reporter with every lock acquisition a step of its
\* own: cpc[k] and rpc say which statement the task executes next.
Step(k, from, to) == cpc[k] = from /\ cpc' = [cpc EXCEPT ![k] = to]

\* process_incoming: blocking_recv() hands consumer k an OK or Err record.
ConsumerRecv ==
    \E k \in Chans :
        /\ cons[k] = "running"
        /\ Len(queue[k]) > 0
        /\ Head(queue[k]).kind \in {"OK", "Err"}
        /\ Step(k, "recv", "lock")
        /\ cur' = [cur EXCEPT ![k] = Head(queue[k])]
        /\ queue' = [queue EXCEPT ![k] = Tail(@)]
        /\ UNCHANGED <<now, ticks, pushes, tx, nchan, cons, sent, stop_at, rpc, late, shut_at>>
        /\ UNCHANGED <<stat_lock, records_lock, last_op>>
        /\ UNCHANGED interner_locks
        /\ UNCHANGED guard_vars
        /\ UNCHANGED window_vars

\* let mut stat_snapshot = self.stat_mut(); process_ok goes on to msg_id,
\* process_err to its push_front.
ConsumerLockStat ==
    \E k \in Chans :
        /\ Step(k, "lock", IF cur[k].kind = "OK" THEN "msg_id" ELSE "count")
        /\ StatFree
        /\ stat_lock' = k
        /\ UNCHANGED <<now, ticks, pushes, rpc, late, shut_at, records_lock, cur, last_op>>
        /\ UNCHANGED interner_locks
        /\ UNCHANGED guard_vars
        /\ UNCHANGED chan_vars
        /\ UNCHANGED window_vars

\* msg_id: let mut msg_idx = self.msg_idx_mut();
ConsumerLockIdx ==
    \E k \in Chans :
        /\ Step(k, "msg_id", "get")
        /\ idx_lock = 0
        /\ idx_lock' = k
        /\ UNCHANGED <<now, ticks, pushes, rpc, late, shut_at, stat_lock, records_lock, cur, last_op>>
        /\ UNCHANGED msgs_lock
        /\ UNCHANGED guard_vars
        /\ UNCHANGED chan_vars
        /\ UNCHANGED window_vars

\* msg_id: a known message returns its id and drops the guard of msg_idx; a
\* new one goes on to msgs_mut() with the guard held.
ConsumerGet ==
    \E k \in Chans :
        /\ Step(k, "get", IF cur[k].message \in DOMAIN msg_idx THEN "count" ELSE "msgs_mut")
        /\ idx_lock' = IF cur[k].message \in DOMAIN msg_idx THEN 0 ELSE idx_lock
        /\ UNCHANGED <<now, ticks, pushes, rpc, late, shut_at, stat_lock, records_lock, cur, last_op>>
        /\ UNCHANGED msgs_lock
        /\ UNCHANGED guard_vars
        /\ UNCHANGED chan_vars
        /\ UNCHANGED window_vars

\* msg_id: let mut msgs = self.msgs_mut();
ConsumerLockMsgs ==
    \E k \in Chans :
        /\ Step(k, "msgs_mut", "insert")
        /\ msgs_lock = 0
        /\ msgs_lock' = k
        /\ UNCHANGED <<now, ticks, pushes, rpc, late, shut_at, stat_lock, records_lock, cur, last_op>>
        /\ UNCHANGED idx_lock
        /\ UNCHANGED guard_vars
        /\ UNCHANGED chan_vars
        /\ UNCHANGED window_vars

\* The message and its id are stored.
Interned(m) ==
    /\ msgs' = m.msgs
    /\ msg_idx' = m.msg_idx

\* msg_id: msgs.push, msg_idx.insert, and both guards are dropped at the
\* return.
ConsumerInsert ==
    \E k \in Chans :
        /\ Step(k, "insert", "count")
        /\ Interned(msg_id(msgs, msg_idx, cur[k].message))
        /\ idx_lock' = 0
        /\ msgs_lock' = 0
        /\ UNCHANGED <<now, ticks, pushes, rpc, late, shut_at, stat_lock, records_lock, cur, last_op>>
        /\ UNCHANGED <<records, stat, last_cleanup, applied>>
        /\ UNCHANGED guard_vars
        /\ UNCHANGED chan_vars

\* The inner record of `rec` once its message is interned in idx.
InnerOf(rec, idx) ==
    IF rec.kind = "OK"
    THEN InnerOK(rec.received_millis, rec.logged_millis, rec.level, idx[rec.message])
    ELSE InnerErr(rec.received_millis)

\* process_ok: refresh_last_second, msg_id, then count_inner_rec as the
\* argument of push_front.
CountOk(m, rec, t) ==
    /\ stat' = count_inner_rec(refresh_last_second(stat, rec.received_millis, t),
                               InnerOf(rec, m.msg_idx), Inc)
    /\ msgs' = m.msgs
    /\ msg_idx' = m.msg_idx

\* process_err: count_inner_rec as the argument of push_front.
CountErr(rec) ==
    /\ stat' = count_inner_rec(stat, InnerOf(rec, msg_idx), Inc)
    /\ UNCHANGED <<msgs, msg_idx>>

\* self.records_mut() is taken, then the argument is evaluated: the record
\* is counted while it is not yet in the deque.
ConsumerCount ==
    \E k \in Chans :
        /\ Step(k, "count", "push")
        /\ RecordsWritable
        /\ records_lock' = k
        /\ IF cur[k].kind = "OK"
           THEN CountOk(msg_id(msgs, msg_idx, cur[k].message), cur[k], now)
           ELSE CountErr(cur[k])
        /\ UNCHANGED <<now, ticks, pushes, rpc, late, shut_at, stat_lock, cur, last_op>>
        /\ UNCHANGED <<records, last_cleanup, applied>>
        /\ UNCHANGED interner_locks
        /\ UNCHANGED guard_vars
        /\ UNCHANGED chan_vars

\* push_front; the records guard is dropped at the end of the statement.
ConsumerPush ==
    \E k \in Chans :
        /\ Step(k, "push", IF cur[k].kind = "OK" THEN "cleanup" ELSE "unlock")
        /\ records' = PushFront(records, InnerOf(cur[k], msg_idx))
        /\ applied' = Append(applied, cur[k].sn)
        /\ records_lock' = 0
        /\ UNCHANGED <<now, ticks, pushes, rpc, late, shut_at, stat_lock, cur, last_op>>
        /\ UNCHANGED <<stat, msgs, msg_idx, last_cleanup>>
        /\ UNCHANGED interner_locks
        /\ UNCHANGED guard_vars
        /\ UNCHANGED chan_vars

\* cleanup_and_adjust, entered by task t: the write scope of its first
\* iteration takes records_mut() and drops it at the closing brace. What the
\* later statements and iterations compute touches only *stat_snapshot, which
\* t holds locked, and a later write scope finds nothing left to evict.
EnterCleanup(t) ==
    /\ RecordsWritable
    /\ CommitCleanup(cleanup_and_adjust(stat, records, now))
    /\ pass' = [pass EXCEPT ![t] = 1]
    /\ UNCHANGED <<msgs, msg_idx, applied>>
    /\ UNCHANGED <<stat_lock, records_lock, readers>>
    /\ UNCHANGED interner_locks

\* Where task t goes when recalc_weights returns: to the write scope of the
\* next iteration, or out of the loop to `done`.
AfterWeights(t, done) == IF pass[t] < last_cleanup.passes THEN "rewrite" ELSE done

\* recalc_weights: `if self.records().len() == 0 { return; }`, the guard a
\* temporary of the condition.
ReadLen(t) ==
    /\ RecordsReadable(t)
    /\ UNCHANGED <<stat_lock, records_lock, readers, pass>>
    /\ UNCHANGED interner_locks
    /\ UNCHANGED window_vars

\* recalc_weights: self.records().front() of the window_size statement; the
\* guard lives to the end of the statement.
ReadFront(t) ==
    /\ RecordsReadable(t)
    /\ readers' = [readers EXCEPT ![t] = @ + 1]
    /\ UNCHANGED <<stat_lock, records_lock, pass>>
    /\ UNCHANGED interner_locks
    /\ UNCHANGED window_vars

\* recalc_weights: self.records().back() of the same statement, taken while
\* the first guard is held; the statement ends and both guards are dropped.
ReadBack(t) ==
    /\ RecordsReadable(t)
    /\ readers' = [readers EXCEPT ![t] = 0]
    /\ UNCHANGED <<stat_lock, records_lock, pass>>
    /\ UNCHANGED interner_locks
    /\ UNCHANGED window_vars

\* The write scope of a later iteration of the cleanup loop.
Rewrite(t) ==
    /\ RecordsWritable
    /\ pass' = [pass EXCEPT ![t] = @ + 1]
    /\ UNCHANGED <<stat_lock, records_lock, readers>>
    /\ UNCHANGED interner_locks
    /\ UNCHANGED window_vars

\* process_ok: self.cleanup_and_adjust(&mut *stat_snapshot).
ConsumerCleanup ==
    \E k \in Chans :
        /\ Step(k, "cleanup", "scan")
        /\ EnterCleanup(k)
        /\ UNCHANGED <<now, ticks, pushes, rpc, late, shut_at, cur, last_op>>
        /\ UNCHANGED chan_vars

ConsumerReadLen ==
    \E k \in Chans :
        /\ Step(k, "scan", IF Len(records) = 0 THEN AfterWeights(k, "unlock") ELSE "front")
        /\ ReadLen(k)
        /\ UNCHANGED <<now, ticks, pushes, rpc, late, shut_at, cur, last_op>>
        /\ UNCHANGED chan_vars

ConsumerReadFront ==
    \E k \in Chans :
        /\ Step(k, "front", "back")
        /\ ReadFront(k)
        /\ UNCHANGED <<now, ticks, pushes, rpc, late, shut_at, cur, last_op>>
        /\ UNCHANGED chan_vars

ConsumerReadBack ==
    \E k \in Chans :
        /\ Step(k, "back", AfterWeights(k, "unlock"))
        /\ ReadBack(k)
        /\ UNCHANGED <<now, ticks, pushes, rpc, late, shut_at, cur, last_op>>
        /\ UNCHANGED chan_vars

ConsumerRewrite ==
    \E k \in Chans :
        /\ Step(k, "rewrite", "scan")
        /\ Rewrite(k)
        /\ UNCHANGED <<now, ticks, pushes, rpc, late, shut_at, cur, last_op>>
        /\ UNCHANGED chan_vars

\* The handler returns: stat_snapshot is dropped.
ConsumerUnlock ==
    \E k \in Chans :
        /\ Step(k, "unlock", "recv")
        /\ stat_lock' = 0
        /\ last_op' = IF cur[k].kind = "OK" THEN "process_ok" ELSE "process_err"
        /\ UNCHANGED <<now, ticks, pushes, rpc, late, shut_at, records_lock, cur>>
        /\ UNCHANGED interner_locks
        /\ UNCHANGED guard_vars
        /\ UNCHANGED chan_vars
        /\ UNCHANGED window_vars

\* Stats::start: let mut stat_snapshot = self.stat_mut();
ReportLockStat ==
    /\ rpc = "render"
    /\ StatFree
    /\ stat_lock' = Reporter
    /\ rpc' = "cleanup"
    /\ UNCHANGED <<now, ticks, pushes, late, shut_at, records_lock, cpc, cur, last_op>>
    /\ UNCHANGED interner_locks
    /\ UNCHANGED guard_vars
    /\ UNCHANGED chan_vars
    /\ UNCHANGED window_vars

\* self.cleanup_and_adjust(&mut *stat_snapshot);
ReportCleanup ==
    /\ rpc = "cleanup"
    /\ EnterCleanup(Reporter)
    /\ rpc' = "scan"
    /\ UNCHANGED <<now, ticks, pushes, late, shut_at, cpc, cur, last_op>>
    /\ UNCHANGED chan_vars

ReportReadLen ==
    /\ rpc = "scan"
    /\ ReadLen(Reporter)
    /\ rpc' = IF Len(records) = 0 THEN AfterWeights(Reporter, "print") ELSE "front"
    /\ UNCHANGED <<now, ticks, pushes, late, shut_at, cpc, cur, last_op>>
    /\ UNCHANGED chan_vars

ReportReadFront ==
    /\ rpc = "front"
    /\ ReadFront(Reporter)
    /\ rpc' = "back"
    /\ UNCHANGED <<now, ticks, pushes, late, shut_at, cpc, cur, last_op>>
    /\ UNCHANGED chan_vars

ReportReadBack ==
    /\ rpc = "back"
    /\ ReadBack(Reporter)
    /\ rpc' = AfterWeights(Reporter, "print")
    /\ UNCHANGED <<now, ticks, pushes, late, shut_at, cpc, cur, last_op>>
    /\ UNCHANGED chan_vars

ReportRewrite ==
    /\ rpc = "rewrite"
    /\ Rewrite(Reporter)
    /\ rpc' = "scan"
    /\ UNCHANGED <<now, ticks, pushes, late, shut_at, cpc, cur, last_op>>
    /\ UNCHANGED chan_vars

\* print_report calls msg_by_id, which reads self.msgs(), for every message
\* it lists.
ListsMessages(st) ==
    DOMAIN st.error_msg_counts \cup DOMAIN st.error_msg_rates # {}

\* self.print_report(now, &stat_snapshot) reads stat and, through msg_by_id,
\* msgs; the block ends and the lock of stat is released.
ReportPrint ==
    /\ rpc = "print"
    /\ ListsMessages(stat) => msgs_lock = 0
    /\ stat_lock' = 0
    /\ rpc' = "loop"
    /\ last_op' = "report"
    /\ UNCHANGED <<now, ticks, pushes, late, shut_at, records_lock, cpc, cur>>
    /\ UNCHANGED interner_locks
    /\ UNCHANGED guard_vars
    /\ UNCHANGED chan_vars
    /\ UNCHANGED window_vars

\* The clock of the lock-by-lock runs: LockTicks steps at most.
AdvanceLocks == ticks < LockTicks /\ Advance

\* One channel with its consumer, the reporter and the clock.
NextLocks ==
    \/ PushOk
    \/ PushErr
    \/ ConsumerRecv
    \/ ConsumerLockStat
    \/ ConsumerLockIdx
    \/ ConsumerGet
    \/ ConsumerLockMsgs
    \/ ConsumerInsert
    \/ ConsumerCount
    \/ ConsumerPush
    \/ ConsumerCleanup
    \/ ConsumerReadLen
    \/ ConsumerReadFront
    \/ ConsumerReadBack
    \/ ConsumerRewrite
    \/ ConsumerUnlock
    \/ ReportCheck
    \/ ReportLockStat
    \/ ReportCleanup
    \/ ReportReadLen
    \/ ReportReadFront
    \/ ReportReadBack
    \/ ReportRewrite
    \/ ReportPrint
    \/ AdvanceLocks

SpecLocks == Init /\ [][NextLocks]_vars

\* ------------------------------------------------------------- print_report
\* map.iter().collect::<Vec<_>>(): the keys of a HashMap in its iteration
\* order, which the map does not define; every order is possible.
IterationOrders(m) ==
    {o \in [1..Cardinality(DOMAIN m) -> DOMAIN m] : \A k \in DOMAIN m : \E i \in DOMAIN o : o[i] = k}

Position(o, k) == CHOOSE i \in DOMAIN o : o[i] = k

\* v.sort_by(|a, b| b.1.cmp(a.1)): a stable sort, greater rank first, equal
\* ranks staying in the order they had in v.
SortedDescending(o, rank) ==
    CHOOSE p \in IterationOrders(rank) :
        \A i \in DOMAIN p : \A j \in DOMAIN p :
            i < j =>
                \/ rank[p[i]] > rank[p[j]]
                \/ rank[p[i]] = rank[p[j]] /\ Position(o, p[i]) < Position(o, p[j])

\* .iter().take(n)
Take(s, n) == SubSeq(s, 1, Min(n, Len(s)))

\* "Top error messages": the lists print_report may write.
TopMessages(st) ==
    {Take(SortedDescending(o, st.error_msg_counts), 3) :
        o \in IterationOrders(st.error_msg_counts)}

\* partial_cmp on two scores, as far as their terms decide it: equal terms
\* give equal floats, and 0.0 is less than every quotient of two sums.
ScoreLess(a, b) == a = ZeroScore /\ b # ZeroScore
ScoresDecided(rates) ==
    \A a \in DOMAIN rates : \A b \in DOMAIN rates :
        rates[a] = rates[b] \/ ScoreLess(rates[a], rates[b]) \/ ScoreLess(rates[b], rates[a])
ScoreRank(rates) ==
    [k \in DOMAIN rates |-> Cardinality({x \in DOMAIN rates : ScoreLess(rates[x], rates[k])})]

\* "Trending messages": the lists print_report may write.
Trending(st) ==
    {Take(SortedDescending(o, ScoreRank(st.error_msg_rates)), 3) :
        o \in IterationOrders(st.error_msg_rates)}

\* ----------------------------------------------------------- trend workload
\* ERROR records whose logged time lies behind or ahead of the receive time
\* (the timestamp is taken from the log line), ingested one by one with the
\* clock standing still.
TrendLags == {LogLag, LogLag \div 2, 0, -(LogLag \div 2)}
TrendInputs == {<<"ERROR", m, lag>> : m \in {"boom", "disk"}, lag \in TrendLags}

PushSkewed ==
    /\ pushes < MaxPush
    /\ QueueRoom
    /\ \E in \in TrendInputs :
           push_record(OkRecord(pushes + 1, now, now - in[3], in[1], in[2]))

NextTrend ==
    \/ PushSkewed
    \/ ConsumeOk

SpecTrend == Init /\ [][NextTrend]_vars

\* ----------------------------------------------------------- paced workload
\* A producer that sends PaceRecords INFO records every PaceMs milliseconds
\* to a consumer that keeps up: a steady rate between the two thresholds of
\* the adaptive window.
PacedDue == (pushes \div PaceRecords) * PaceMs

PacedPush ==
    /\ pushes < MaxPaced
    /\ Drained
    /\ now - Epoch = PacedDue
    /\ push_record(OkRecord(pushes + 1, now, now, "INFO", "boom"))

PacedAdvance ==
    /\ pushes < MaxPaced
    /\ Drained
    /\ now - Epoch < PacedDue
    /\ now' = now + 1
    /\ last_op' = "advance"
    /\ UNCHANGED <<ticks, pushes, rpc, late, shut_at>>
    /\ UNCHANGED lock_vars
    /\ UNCHANGED chan_vars
    /\ UNCHANGED window_vars

NextPaced ==
    \/ PacedPush
    \/ PacedAdvance
    \/ ConsumeOk

SpecPaced == Init /\ [][NextPaced]_vars

\* =============================================================== properties
\* The handlers that end an ingest step or an eviction.
AfterStep == last_op \in {"process_ok", "process_err", "report"}
AfterCleanup == last_op \in {"process_ok", "report"}

PerSecCount(s, id) ==
    IF id \in DOMAIN stat.error_msg_per_sec[s] THEN stat.error_msg_per_sec[s][id] ELSE 0

\* C1. Counter coherence: after process_ok, process_err and the reporter's
\* cleanup_and_adjust, errors + infos + debugs + malformed = entries and
\* entries = records.len().
C1_CounterCoherence ==
    AfterStep =>
        /\ stat.errors + stat.infos + stat.debugs + stat.malformed = stat.entries
        /\ stat.entries = Len(records)

\* C2. Histogram coherence: every key of error_msg_counts maps to the sum of
\* its counts over all seconds of error_msg_per_sec, absent entries counting 0.
C2_HistogramCoherence ==
    \A id \in DOMAIN stat.error_msg_counts :
        stat.error_msg_counts[id] =
            SumOver([s \in DOMAIN stat.error_msg_per_sec |-> PerSecCount(s, id)],
                    DOMAIN stat.error_msg_per_sec)

\* One message was evicted to zero while another is counted twice, in two
\* different seconds.
C2_Witness ==
    /\ \E id \in DOMAIN stat.error_msg_counts : stat.error_msg_counts[id] = 0
    /\ \E id \in DOMAIN stat.error_msg_counts :
           /\ stat.error_msg_counts[id] = 2
           /\ Cardinality({s \in DOMAIN stat.error_msg_per_sec :
                              id \in DOMAIN stat.error_msg_per_sec[s]}) = 2

\* C3. After an ingest or eviction step no key of error_msg_counts maps to 0:
\* a message whose count reaches zero is removed from error_msg_counts and
\* from error_msg_per_sec.
C3_ZeroCountRemoved ==
    AfterStep =>
        \A id \in DOMAIN stat.error_msg_counts :
            /\ stat.error_msg_counts[id] # 0
            /\ \E s \in DOMAIN stat.error_msg_per_sec : id \in DOMAIN stat.error_msg_per_sec[s]

\* C4. Per-sec pruning: no error_msg_per_sec[s] is an empty map and no
\* error_msg_per_sec[s][id] is zero or negative.
C4_PerSecPruned ==
    \A s \in DOMAIN stat.error_msg_per_sec :
        /\ DOMAIN stat.error_msg_per_sec[s] # {}
        /\ \A id \in DOMAIN stat.error_msg_per_sec[s] : stat.error_msg_per_sec[s][id] > 0

\* The last cleanup evicted an ERROR record whose bucket was pruned away,
\* and a bucket of a later record remains; the deque holds records whose
\* logged times are not in receive order.
C4_Witness ==
    /\ AfterCleanup
    /\ last_cleanup.evicted > 0
    /\ \E id \in DOMAIN stat.error_msg_counts : stat.error_msg_counts[id] = 0
    /\ DOMAIN stat.error_msg_per_sec # {}
    /\ \E i, j \in 1..Len(records) :
           i < j /\ log_timestamp_millis(records[i]) < log_timestamp_millis(records[j])

\* C5. Window clamping: window_ms is within [30_000, 120_000] in every state.
C5_WindowClamped ==
    /\ stat.window >= MIN_WINDOW * SECOND_MS
    /\ stat.window <= MAX_WINDOW * SECOND_MS

\* A cleanup took the adaptive-window branch and changed the window.
C5_Witness ==
    /\ AfterCleanup
    /\ last_cleanup.changed
    /\ stat.window # DEFAULT_WINDOW
    /\ stat.previous_window = DEFAULT_WINDOW

\* clamp(x, lo, hi)
Clamp(x, lo, hi) == Max(lo, Min(x, hi))

\* C6. Adaptive window value: when cleanup_and_adjust sees rate > 0 and
\* rate * window_ms / 1000 above 100_000 or below 75_000, window_ms becomes
\* clamp(floor(100_000 / rate), 30, 120) * 1000 and previous_window_ms the
\* old window_ms; at about 5000 records/s from a window of 60_000 the result
\* is window_ms = 30_000 and previous_window_ms = 60_000.
C6_AdaptiveWindowValue ==
    (AfterCleanup /\ last_cleanup.cond) =>
        /\ stat.window =
               Clamp(TargetSeconds(last_cleanup.rate), MIN_WINDOW, MAX_WINDOW) * SECOND_MS
        /\ (last_cleanup.changed /\ last_cleanup.passes = 2) =>
               stat.previous_window = last_cleanup.first_from
        /\ (/\ last_cleanup.first_from = 60000
            /\ last_cleanup.first_rate[1] >= 4900 * last_cleanup.first_rate[2]
            /\ last_cleanup.first_rate[1] <= 5100 * last_cleanup.first_rate[2]) =>
               stat.window = 30000 /\ stat.previous_window = 60000

\* C7. Eviction monotonicity: when cleanup_and_adjust returns, every record
\* still in the deque has recv_ms >= now - window_ms, for the time the
\* invocation read and the window at return.
C7_EvictionMonotonic ==
    AfterCleanup =>
        \A i \in 1..Len(records) :
            recv_timestamp_millis(records[i]) >= now - stat.window

\* A cleanup evicted a record, kept at least two others and changed the
\* window in the same invocation.
C7_Witness ==
    /\ AfterCleanup
    /\ last_cleanup.evicted > 0
    /\ last_cleanup.changed
    /\ Len(records) >= 2

\* The texts a caller may pass to msg_id.
Texts == {"boom", "disk", "late"}

InternerCoherent ==
    /\ Len(msgs) = Cardinality(DOMAIN msg_idx)
    /\ \A text \in DOMAIN msg_idx :
           msg_idx[text] < Len(msgs) /\ msg_by_id(msgs, msg_idx[text]) = text
    /\ \A t1 \in Texts :
           LET r1 == msg_id(msgs, msg_idx, t1)
           IN  /\ msg_id(r1.msgs, r1.msg_idx, t1) = r1
               /\ \A t2 \in Texts \ {t1} :
                      LET r2 == msg_id(r1.msgs, r1.msg_idx, t2)
                      IN  /\ r2.id # r1.id
                          /\ msg_id(r2.msgs, r2.msg_idx, t1).id = r1.id

InternerStep ==
    /\ \A text \in DOMAIN msg_idx :
           text \in DOMAIN msg_idx' /\ msg_idx'[text] = msg_idx[text]
    /\ \A text \in (DOMAIN msg_idx') \ (DOMAIN msg_idx) : msg_idx'[text] = Len(msgs)
    /\ \A i \in 1..Len(msgs) : i <= Len(msgs') /\ msgs'[i] = msgs[i]

\* C8. Interner stability: the same text always yields the same id, distinct
\* texts yield distinct ids, a new id is the length of the id vector before
\* the push, and an id once issued is never given to another text.
C8_InternerStable == []InternerCoherent /\ [][InternerStep]_vars

\* Three OK records are in the window: the first and the last carry the same
\* message, the one between them another.
C8_Witness ==
    /\ Len(msgs) = 2
    /\ Len(records) = 3
    /\ \A i \in 1..3 : records[i].kind = "OK"
    /\ records[1].msg_id = records[3].msg_id
    /\ records[2].msg_id # records[1].msg_id

\* The records count_inner_rec may be given in the current state: any level
\* with an interned message, or a malformed one.
ProbeRecords ==
    {InnerOK(now, now - lag, level, id) :
        lag \in {0, LogLag}, level \in {"ERROR", "INFO", "DEBUG"}, id \in 0..(Len(msgs) - 1)}
    \cup {InnerErr(now)}

\* C9. Apply symmetry: count_inner_rec(rec, Inc) followed by
\* count_inner_rec(rec, Dec) leaves the WindowState equal to its prior value,
\* key sets of error_msg_counts and error_msg_per_sec included.
C9_ApplySymmetry ==
    \A rec \in ProbeRecords :
        count_inner_rec(count_inner_rec(stat, rec, Inc), rec, Dec) = stat

\* C10. Stop is a poison pill: a consumer that observed Stop applies no
\* record sent after that Stop, and every push_record made after the
\* consumer has exited fails with channel-closed and is never ingested.
C10_StopPoisonPill ==
    /\ \A k \in Chans :
           cons[k] = "stopped" =>
               \A i \in 1..Len(applied) :
                   sent[applied[i]] = k => applied[i] < stop_at[k]
    /\ \A sn \in late :
           /\ sent[sn] = 0
           /\ \A i \in 1..Len(applied) : applied[i] # sn

\* The serial numbers of the sends made after the first shutdown() call.
PushedAfterShutdown == IF shut_at = -1 THEN {} ELSE (shut_at + 1)..pushes

Ingested == {applied[i] : i \in DOMAIN applied}

\* C11. shutdown() drops the send handle, so that a running consumer drains
\* its queue and observes channel-closed without a Stop, and the core stays
\* shut down: no record pushed after shutdown() is ingested into the window.
C11_ShutdownFinal ==
    /\ shut_at = pushes =>
           \A k \in Chans : cons[k] = "running" /\ Len(queue[k]) = 0 => ObservesClosed(k)
    /\ PushedAfterShutdown \cap Ingested = {}

\* C12. Order preservation: records are applied to the window in exactly
\* the order in which push_record was called, for any sequence of
\* push_record, stop and shutdown calls.
C12_OrderPreserved ==
    \A i \in DOMAIN applied : \A j \in DOMAIN applied : i < j => applied[i] < applied[j]

\* The steps of the reporter task.
ReporterStep == last_op' \in {"report_empty", "report_check", "report"}

IsPrefix(s, t) == Len(s) <= Len(t) /\ s = SubSeq(t, 1, Len(s))

\* C13. Single writer: records and stat are mutated only by the consumer
\* task; the reporter only reads them and never pops records or changes the
\* counters, window_ms or the derived metrics.
C13_ReporterReadsOnly == [][ReporterStep => UNCHANGED <<records, stat>>]_vars

Counters(st) == <<st.errors, st.infos, st.debugs, st.malformed>>

\* C13, as the code has it: the reporter's locked block runs
\* cleanup_and_adjust, which evicts; a report step only removes records
\* from the back of the deque, never raises a counter, never takes a record
\* in and leaves the interner alone.
C13_ReporterOnlyEvicts ==
    [][last_op' = "report" =>
          /\ IsPrefix(records', records)
          /\ \A i \in 1..4 : Counters(stat')[i] <= Counters(stat)[i]
          /\ Len(records) - Len(records') = last_cleanup'.evicted
          /\ UNCHANGED <<msgs, msg_idx, applied>>]_vars

\* The reporter's cleanup evicted a record and changed the window.
C13_Witness ==
    /\ last_op = "report"
    /\ last_cleanup.evicted > 0
    /\ last_cleanup.changed

RunningConsumers == {k \in Chans : cons[k] = "running"}

\* C14. Single consumer: for any sequence of push_record, stop and shutdown
\* calls, at most one consumer task exists at any time.
C14_SingleConsumer == Cardinality(RunningConsumers) <= 1

CounterSum(st) == st.errors + st.infos + st.debugs + st.malformed

\* The reporter holds the lock of stat and reads it.
ReporterReads == rpc \in {"cleanup", "scan", "front", "back", "rewrite", "print"}

\* C15. Snapshot consistency: whenever the reporter reads the window state
\* to render, it never observes a partially updated state: errors + infos +
\* debugs + malformed = records.len(), under any interleaving with the
\* consumer.
C15_SnapshotConsistent == ReporterReads => CounterSum(stat) = Len(records)

\* The reporter is about to print while a consumer holds a record it has
\* received and waits for the lock of stat.
C15_Witness ==
    /\ rpc = "print"
    /\ stat_lock = Reporter
    /\ Len(records) > 0
    /\ \E k \in Chans : cpc[k] = "lock"

OfLevel(recs, level) == {i \in DOMAIN recs : recs[i].kind = "OK" /\ recs[i].level = level}
Malformed(recs) == {i \in DOMAIN recs : recs[i].kind = "Err"}
ErrorsOf(recs, id) == {i \in OfLevel(recs, "ERROR") : recs[i].msg_id = id}
ErrorIds(recs) == {recs[i].msg_id : i \in OfLevel(recs, "ERROR")}

\* C16. Baseline ingest: after ingesting k records of which none is evicted,
\* entries = k and infos, errors, debugs and malformed each equal the number
\* of ingested records of that kind, error_msg_counts holding the count of
\* every ERROR message (INFO, ERROR "boom", malformed: entries = 3, infos =
\* errors = malformed = 1, debugs = 0, error_msg_counts = {id("boom"): 1}).
C16_BaselineIngest ==
    last_op \in {"process_ok", "process_err"} /\ Len(records) = Len(applied) =>
        /\ stat.entries = Len(applied)
        /\ stat.infos = Cardinality(OfLevel(records, "INFO"))
        /\ stat.errors = Cardinality(OfLevel(records, "ERROR"))
        /\ stat.debugs = Cardinality(OfLevel(records, "DEBUG"))
        /\ stat.malformed = Cardinality(Malformed(records))
        /\ DOMAIN stat.error_msg_counts = ErrorIds(records)
        /\ \A id \in ErrorIds(records) :
               stat.error_msg_counts[id] = Cardinality(ErrorsOf(records, id))

\* The last cleanup_and_adjust found every record of the deque older than
\* now - window and evicted them all.
FullDrain == AfterCleanup /\ last_cleanup.evicted > 0 /\ Len(records) = 0

\* C17. Full drain: after a cleanup_and_adjust invoked when every record in
\* the deque is older than now - window_ms, entries = 0, errors = infos =
\* debugs = malformed = 0 and error_msg_per_sec is empty.
C17_FullDrain ==
    FullDrain =>
        /\ stat.entries = 0
        /\ Counters(stat) = <<0, 0, 0, 0>>
        /\ DOMAIN stat.error_msg_per_sec = {}

\* C18. Last-second tracker: after each ingest/evict step (OK ingest,
\* malformed ingest, reporter cleanup) last_second_received holds only
\* receive timestamps within the last 1000 ms of the wall time, so that the
\* current rate the reporter shows counts no record received more than one
\* second ago.
C18_LastSecondFresh ==
    AfterStep =>
        \A i \in DOMAIN stat.last_second_received :
            now - stat.last_second_received[i] <= SECOND_MS

\* C19. cleanup_and_adjust invoked while the record deque is empty is a
\* no-op: it leaves every field of the window state unchanged and raises no
\* error, whatever the state held before.
C19_EmptyCleanupNoOp ==
    [][rpc = "render" /\ Len(records) = 0 /\ last_op' = "report" =>
          UNCHANGED <<stat, records>>]_vars

\* The keys of m, lowest first.
Ascending(m) ==
    CHOOSE o \in IterationOrders(m) : \A i \in DOMAIN o : \A j \in DOMAIN o : i < j => o[i] < o[j]

\* C20. Top-3 ranking is deterministic: the reporter lists the three error
\* messages with the highest counts in descending count order, and the three
\* with the highest trend scores in descending score order, ties always
\* going to the lower msg_id.
C20_RankingDeterministic ==
    last_op = "report" =>
        /\ TopMessages(stat) =
               {Take(SortedDescending(Ascending(stat.error_msg_counts), stat.error_msg_counts), 3)}
        /\ ScoresDecided(stat.error_msg_rates) =>
               Trending(stat) =
                   {Take(SortedDescending(Ascending(stat.error_msg_rates),
                                          ScoreRank(stat.error_msg_rates)), 3)}

\* C21. The cleanup_and_adjust loop ends after at most two passes on every
\* invocation, for any window state, record deque and rate.
C21_TwoPasses == AfterCleanup => last_cleanup.passes <= 2

\* A cleanup changed the window and ran a second pass over a non-empty deque.
C21_Witness ==
    /\ AfterCleanup
    /\ last_cleanup.passes = 2
    /\ last_cleanup.changed
    /\ Len(records) > 0

\* The span, the group of a second bucket and the two halves as the trend
\* scan is described: group = floor((now - s * 1000) * 2 / span).
TrendSpan == Max(log_timestamp_millis(Front(records)) - log_timestamp_millis(Back(records)),
                 MSG_ERROR_WINDOW)
TrendGroup(s) == ((now - s * SECOND_MS) * 2) \div TrendSpan
TrendBase(g) == IF g = 0 THEN now - TrendSpan \div 2 ELSE now
TrendHalf(g, id) ==
    {<<TrendBase(g) - s * SECOND_MS, stat.error_msg_per_sec[s][id]>> :
        s \in {x \in DOMAIN stat.error_msg_per_sec :
                  TrendGroup(x) = g /\ id \in DOMAIN stat.error_msg_per_sec[x]}}

\* C22. Trend scan inclusion: every second bucket whose group is 0 or 1
\* contributes its counts to that half, only buckets with group > 1 are
\* skipped, whatever other buckets exist (buckets logged after now
\* included); a msg_id of error_msg_counts gets score 0 exactly when it has
\* no contribution in the older half.
C22_TrendScan ==
    last_op = "process_ok" /\ Len(records) > 0 =>
        \A id \in DOMAIN stat.error_msg_counts :
            /\ stat.error_msg_rates[id] = ZeroScore <=> TrendHalf(1, id) = {}
            /\ TrendHalf(1, id) # {} =>
                   stat.error_msg_rates[id] =
                       [newer |-> TrendHalf(0, id), older |-> TrendHalf(1, id),
                        span |-> TrendSpan]

\* rate == 0, or rate > 0 with rate * window_ms / 1000 inside [75000, 100000].
Quiet(rate, window) ==
    \/ rate[1] = 0
    \/ /\ RatPos(rate)
       /\ rate[1] * (window \div SECOND_MS) >= LOW_BUFFER * rate[2]
       /\ rate[1] * (window \div SECOND_MS) <= HIGH_BUFFER * rate[2]

\* The rate a cleanup_and_adjust had when it first reached the window test.
BranchRate(st, log) == IF log.cond THEN log.first_rate ELSE st.rate

\* C23. Window hysteresis: cleanup_and_adjust leaves window_ms and
\* previous_window_ms unchanged whenever rate == 0, and whenever rate > 0
\* with expected = rate * window_ms / 1000 inside [75_000, 100_000].
C23_Hysteresis ==
    [][last_op' \in {"process_ok", "report"} /\ Quiet(BranchRate(stat', last_cleanup'), stat.window)
          => stat'.window = stat.window /\ stat'.previous_window = stat.previous_window]_vars

\* A cleanup ran at a steady rate inside the band, after the rate had been
\* measured for the first time.
C23_Witness ==
    /\ last_op = "process_ok"
    /\ RatPos(stat.rate)
    /\ Quiet(stat.rate, stat.window)
    /\ stat.window = DEFAULT_WINDOW
    /\ stat.collected_interval > RATE_MIN_INTERVAL

\* The fields the malformed path has to leave alone.
MalformedFrame(st) ==
    <<st.errors, st.infos, st.debugs, st.error_msg_counts, st.error_msg_per_sec,
      st.error_msg_rates, st.window, st.last_second_received>>

\* Ingesting a malformed record: malformed + 1, one record more at the front
\* of the deque, nothing evicted, the frame untouched.
MalformedStep ==
    last_op' = "process_err" =>
        /\ stat'.malformed = stat.malformed + 1
        /\ Len(records') = Len(records) + 1
        /\ Front(records').kind = "Err"
        /\ Tail(records') = records
        /\ MalformedFrame(stat') = MalformedFrame(stat)

\* Counting an INFO or DEBUG record in or out leaves both histograms alone.
InfoDebugFrame ==
    \A rec \in ProbeRecords : \A act \in {Inc, Dec} :
        rec.kind = "OK" /\ rec.level \in {"INFO", "DEBUG"} =>
            /\ count_inner_rec(stat, rec, act).error_msg_counts = stat.error_msg_counts
            /\ count_inner_rec(stat, rec, act).error_msg_per_sec = stat.error_msg_per_sec

\* C24. Malformed path frame: ingesting an Err record increments malformed
\* by one and pushes exactly one record at the front of the deque, evicts
\* nothing and leaves errors, infos, debugs, error_msg_counts,
\* error_msg_per_sec, error_msg_rates, window_ms and last_second_received
\* unchanged; INFO and DEBUG records never change error_msg_counts or
\* error_msg_per_sec when applied or evicted.
C24_MalformedFrame == [][MalformedStep]_vars /\ []InfoDebugFrame

\* A malformed line was ingested after an ERROR and an INFO record, more than
\* a second after the first of them was received.
C24_Witness ==
    /\ last_op = "process_err"
    /\ stat.malformed = 1
    /\ stat.errors = 1
    /\ stat.infos = 1
    /\ Len(records) = 3
    /\ now - Back(records).received_millis > SECOND_MS


\* ------------------------------------------------------------ waiting tasks
\* The statement at which task t calls stat_mut(), those at which it calls
\* records(), and the one at which it takes the lock of msgs.
StatPoint(t) == IF t = Reporter THEN "render" ELSE "lock"
ReadPoints(t) == IF t = Reporter THEN {"loop", "scan", "front", "back"} ELSE {"scan", "front", "back"}
AtMsgsPoint(t) == IF t = Reporter THEN rpc = "print" /\ ListsMessages(stat) ELSE cpc[t] = "msgs_mut"

Held(lock) == {lock} \ {0}
ReadersOf == {u \in Tasks : readers[u] > 0}
QueuedWriters(t) == {u \in Tasks \ {t} : At(u) \in WritePoints /\ ~RecordsWritable}

\* The tasks that stand between task t and the lock it is asking for; empty
\* when t can take its next step.
Awaited(t) ==
    IF At(t) = StatPoint(t) THEN Held(stat_lock)
    ELSE IF At(t) = "msg_id" THEN Held(idx_lock)
    ELSE IF AtMsgsPoint(t) THEN Held(msgs_lock)
    ELSE IF At(t) \in WritePoints THEN Held(records_lock) \cup ReadersOf
    ELSE IF At(t) \in ReadPoints(t) THEN Held(records_lock) \cup QueuedWriters(t)
    ELSE {}

\* Task t holds none of the locked fields.
HoldsNothing(t) ==
    /\ stat_lock # t
    /\ records_lock # t
    /\ idx_lock # t
    /\ msgs_lock # t
    /\ readers[t] = 0

\* stat is asked for with nothing held; the write lock of records is asked
\* for and held only under stat; records is never asked for under a lock of
\* the interner; msg_idx is taken under stat and msgs under msg_idx.
LockOrder ==
    /\ \A t \in Tasks : At(t) = StatPoint(t) => HoldsNothing(t)
    /\ \A t \in Tasks : At(t) \in WritePoints => stat_lock = t
    /\ records_lock # 0 => stat_lock = records_lock
    /\ \A t \in Tasks : At(t) \in WritePoints \cup ReadPoints(t) => idx_lock # t /\ msgs_lock # t
    /\ idx_lock # 0 => stat_lock = idx_lock
    /\ \A k \in Chans : msgs_lock = k => idx_lock = k

\* Whoever stands in the way of a task is another task, and one that is not
\* itself waiting for anything.
NoneWaitsForever ==
    \A t \in Tasks : \A u \in Awaited(t) : u # t /\ Awaited(u) = {}

\* C25: deadlock freedom. The consumer and the reporter take the locks of
\* stat, records, msg_idx and msgs in one order: stat first, the write lock of
\* records only under stat, records never under a lock of the interner. So at
\* every point of every interleaving a task that waits for a lock waits for a
\* task that can run, and no task waits for itself, the second records read
\* guard of recalc_weights, taken while the first is held, included.
C25_DeadlockFree == LockOrder /\ NoneWaitsForever

\* The reporter waits for stat while the consumer, in the second iteration of
\* its cleanup loop, holds one read guard of records and asks for the next.
C25_Witness ==
    /\ rpc = "render"
    /\ Awaited(Reporter) = {1}
    /\ cpc[1] = "back"
    /\ readers[1] = 1
    /\ pass[1] = 2

====
